---- MODULE Spec2Model ----
(***************************************************************************)
(* ParPass ML API (src/api.py): a model store loaded once at startup from  *)
(* recommendation_model.pkl, the collaborative-filtering scoring engine    *)
(* get_recommendations with its fallback get_popular_courses, and the      *)
(* three HTTP handlers root, health and recommendations.                   *)
(*                                                                         *)
(* Numbers.  The code computes with IEEE doubles.  Similarities are        *)
(* integers in units of 1/16 (13 is 0.8125): a multiple of 1/16 is a       *)
(* double, its product with a play count and the sums of such products     *)
(* are doubles too, so the float sum of line 80 is the exact sum and the   *)
(* comparisons of lines 84 and 92 are comparisons of the exact values.     *)
(* An unrounded score is an integer number of sixteenths, and the 'score'  *)
(* field of a returned record, round(score, 2), is an integer number of    *)
(* hundredths.                                                             *)
(***************************************************************************)
EXTENDS Integers, Sequences, FiniteSets, TLC

VARIABLES
    model_data,  \* the module-level global: None or the loaded dict
    started,     \* TRUE once the startup event (load_model) has run
    request,     \* the request being answered, or None
    response     \* the answer to it, or None

vars == <<model_data, started, request, response>>

\* Python's None
None == [none |-> TRUE]

(***************************************************************************)
(* Bounds of the model.                                                    *)
(***************************************************************************)
MaxPlays == 2       \* play counts range over 0..MaxPlays
MaxLimit == 3       \* the limit query parameter ranges up to MaxLimit ...
MaxNegLimit == 1    \* ... and down to -MaxNegLimit

MemberIds == {"M1", "M2", "M3"}
MemberOrder == <<"M1", "M2", "M3">>
CourseIds == {"C1", "C2"}
Tiers == {"standard", "premium"}
SimValues == {-2, 1, 13}            \* -0.125, 0.0625, 0.8125

(***************************************************************************)
(* Helpers for sequences (pandas objects and Python lists are ordered).    *)
(***************************************************************************)
Range(s) == {s[i] : i \in DOMAIN s}

Min(a, b) == IF a <= b THEN a ELSE b

Max(a, b) == IF a >= b THEN a ELSE b

\* Python's s[:n] and DataFrame.head(n): the first n items when n >= 0, all
\* but the last -n items when n < 0.
slice_to(s, n) ==
    SubSeq(s, 1, IF n >= 0 THEN Min(n, Len(s)) ELSE Max(0, Len(s) + n))

head(df, n) ==
    SubSeq(df, 1, IF n >= 0 THEN Min(n, Len(df)) ELSE Max(0, Len(df) + n))

(***************************************************************************)
(* get_popular_courses (lines 110-126): the first n rows of courses_df.    *)
(***************************************************************************)
popular_record(course) ==
    [id |-> course.course_id,
     name |-> course.name,
     city |-> course.city,
     state |-> course.state,
     tier_required |-> course.tier_required,
     score |-> 0,
     reason |-> "Popular course"]

get_popular_courses(md, member_id, n) ==
    LET rows == head(md.courses_df, n)
    IN  [i \in 1..Len(rows) |-> popular_record(rows[i])]

(***************************************************************************)
(* get_recommendations (lines 31-108).  Member and course ids are strings  *)
(* (the path parameter is declared str, the tables are keyed by string     *)
(* ids), on which the str() calls of lines 34, 93 and 99 change nothing.   *)
(* A pandas lookup of a missing label raises KeyError; the function then   *)
(* returns no value (Raise).                                               *)
(***************************************************************************)
Return(v) == [raised |-> "", value |-> v]

Raise(e) == [raised |-> e, value |-> <<>>]

\* members_df[members_df['member_id'] == member_id]
member_row(members_df, member_id) ==
    SelectSeq(members_df, LAMBDA r : r.member_id = member_id)

\* courses_df[courses_df['course_id'] == course_id]
course_row(courses_df, course_id) ==
    SelectSeq(courses_df, LAMBDA r : r.course_id = course_id)

\* mutant: a course counts as played only from the second play on
played_courses_more_than_once(mcm, member_id) ==
    {c \in Range(mcm.columns) : mcm.values[member_id][c] > 1}

\* set(matrix.loc[member_id][matrix.loc[member_id] > 0].index)
played_courses(mcm, member_id) ==
    {c \in Range(mcm.columns) : mcm.values[member_id][c] > 0}

\* member_similarity_df[member_id].drop(member_id): the column of member_id
\* without its own row, as a Series (index order kept).
similarities(sim_df, member_id) ==
    LET idx == SelectSeq(sim_df.index, LAMBDA o : o # member_id)
    IN  [index |-> idx,
         values |-> [o \in Range(idx) |-> sim_df.values[o][member_id]]]

\* lines 76-80: score = 0; for other in similarities.index: score += sim * plays
RECURSIVE score_loop(_, _, _, _)
score_loop(mcm, sims, course_id, i) ==
    IF i = 0 THEN 0
    ELSE score_loop(mcm, sims, course_id, i - 1)
         + sims.values[sims.index[i]] * mcm.values[sims.index[i]][course_id]

\* mutant: every player of the course adds its similarity once, whatever
\* its play count
RECURSIVE unweighted_loop(_, _, _, _)
unweighted_loop(mcm, sims, course_id, i) ==
    IF i = 0 THEN 0
    ELSE unweighted_loop(mcm, sims, course_id, i - 1)
         + (IF mcm.values[sims.index[i]][course_id] > 0
            THEN sims.values[sims.index[i]] ELSE 0)

course_score_unweighted(mcm, sims, course_id) ==
    unweighted_loop(mcm, sims, course_id, Len(sims.index))

course_score(mcm, sims, course_id) ==
    score_loop(mcm, sims, course_id, Len(sims.index))

\* mutant: the tier test of lines 72-74 is missing
is_candidate_ungated(md, member_id, is_premium, course_id) ==
    /\ course_id \notin played_courses(md.member_course_matrix, member_id)
    /\ Len(course_row(md.courses_df, course_id)) # 0

\* lines 65-74: the three 'continue' tests of the scoring loop
is_candidate(md, member_id, is_premium, course_id) ==
    /\ course_id \notin played_courses(md.member_course_matrix, member_id)
    /\ Len(course_row(md.courses_df, course_id)) # 0
    /\ ~(course_row(md.courses_df, course_id)[1].tier_required = "premium"
         /\ ~is_premium)

\* mutant: reverse=True is missing (stable, ascending)
RECURSIVE sorted_asc(_)
sorted_asc(items) ==
    IF items = <<>> THEN <<>>
    ELSE LET n == Len(items)
             e == items[n]
             done == sorted_asc(SubSeq(items, 1, n - 1))
         IN  SelectSeq(done, LAMBDA x : x[2] <= e[2])
             \o <<e>>
             \o SelectSeq(done, LAMBDA x : x[2] > e[2])

\* sorted(items, key=lambda x: x[1], reverse=True): stable, descending
RECURSIVE sorted_desc(_)
sorted_desc(items) ==
    IF items = <<>> THEN <<>>
    ELSE LET n == Len(items)
             e == items[n]
             done == sorted_desc(SubSeq(items, 1, n - 1))
         IN  SelectSeq(done, LAMBDA x : x[2] >= e[2])
             \o <<e>>
             \o SelectSeq(done, LAMBDA x : x[2] < e[2])

\* round(score, 2), line 104: the hundredth nearest to the score, the even
\* one when the score is half way between two.  A score of x sixteenths is
\* 25 * x / 4 hundredths: q hundredths and r quarters of a hundredth more,
\* r in 0..3 (for a negative score too: \div rounds down).  The score is an
\* exact double and so is 100 times it, so a float and a numpy.float64
\* round alike.
round2(score) ==
    LET q == (25 * score) \div 4
        r == (25 * score) % 4
    IN  IF r < 2 THEN q
        ELSE IF r > 2 THEN q + 1
        ELSE IF q % 2 = 0 THEN q ELSE q + 1

\* similarities[other_id] > 0.3, line 92: 0.3 is 4.8 sixteenths, which a whole
\* number of sixteenths exceeds exactly when it exceeds 4
SimThreshold == 4

DefaultName == "Member"

\* member_names.get(str(other_id), 'Member')
name_of(member_names, other_id) ==
    IF other_id \in DOMAIN member_names THEN member_names[other_id]
    ELSE DefaultName

\* lines 90-94
similar_members(md, sims, course_id) ==
    LET qualifies(o) ==
            /\ md.member_course_matrix.values[o][course_id] > 0
            /\ sims.values[o] > SimThreshold
        who == SelectSeq(sims.index, qualifies)
    IN  [i \in 1..Len(who) |-> name_of(md.member_names, who[i])]

\* line 96
reason_text(names) ==
    IF names = <<>> THEN "Recommended for you"
    ELSE IF Len(names) = 1 THEN "Played by: " \o names[1]
    ELSE "Played by: " \o names[1] \o ", " \o names[2]

\* lines 87-106
result_record(md, sims, item) ==
    LET course_info == course_row(md.courses_df, item[1])[1]
    IN  [id |-> item[1],
         name |-> course_info.name,
         city |-> course_info.city,
         state |-> course_info.state,
         tier_required |-> course_info.tier_required,
         score |-> round2(item[2]),
         reason |-> reason_text(similar_members(md, sims, item[1]))]

get_recommendations(md, member_id, n_recommendations) ==
    LET mcm == md.member_course_matrix
        sim_df == md.member_similarity_df
    IN  IF member_id \notin mcm.index
        THEN Return(get_popular_courses(md, member_id, n_recommendations))
        ELSE IF Len(member_row(md.members_df, member_id)) = 0
        THEN Return(<<>>)
        ELSE IF member_id \notin Range(sim_df.index)
        THEN Raise("KeyError")          \* line 59: no such column / label
        ELSE
        LET is_premium == member_row(md.members_df, member_id)[1].tier = "premium"
            sims == similarities(sim_df, member_id)
            candidates ==
                SelectSeq(mcm.columns,
                          LAMBDA c : is_candidate(md, member_id, is_premium, c))
        IN  IF candidates # <<>> /\ \E o \in Range(sims.index) : o \notin mcm.index
            THEN Raise("KeyError")      \* line 79: .loc[other_member_id, ...]
            ELSE
            LET course_scores ==
                    [i \in 1..Len(candidates) |->
                        <<candidates[i], course_score(mcm, sims, candidates[i])>>]
                sorted_courses ==
                    slice_to(sorted_desc(course_scores), n_recommendations)
            IN  Return([i \in 1..Len(sorted_courses) |->
                            result_record(md, sims, sorted_courses[i])])

(***************************************************************************)
(* The contents recommendation_model.pkl may hold: the five structures.    *)
(* The file is written by an offline notebook; three families of stores    *)
(* are loaded here.                                                        *)
(*   ScoringStores: every member and course known, every play count and    *)
(*     the similarities of M1 free (scores, rounding, ranking, reasons).   *)
(*   GatingStores: member tiers, catalog contents/order/tiers and matrix   *)
(*     column order free (tier gating, missing metadata, tie order).       *)
(*   PartialStores: interaction rows, similarity rows and member rows      *)
(*     missing independently (the "not found" branches).                   *)
(***************************************************************************)
CourseRow(c, tier) ==
    [course_id |-> c, name |-> "Course " \o c, city |-> "City " \o c,
     state |-> "State " \o c, tier_required |-> tier]

MemberRow(m, tier) == [member_id |-> m, tier |-> tier]

SubSeqOf(order, keep) == SelectSeq(order, LAMBDA x : x \in keep)

\* a symmetric similarity matrix over the members of 'index'
SimMatrix(index, s12, s13, s23) ==
    LET v(a, b) ==
            IF a = b THEN 16             \* 1.0 on the diagonal
            ELSE IF {a, b} = {"M1", "M2"} THEN s12
            ELSE IF {a, b} = {"M1", "M3"} THEN s13
            ELSE s23
    IN  [index |-> SubSeqOf(MemberOrder, index),
         values |-> [a \in index |-> [b \in index |-> v(a, b)]]]

Matrix(index, columns, plays) ==
    [index |-> index, columns |-> columns,
     values |-> [m \in index |-> plays[m]]]

MembersTable(present, tier) ==
    LET ids == SubSeqOf(MemberOrder, present)
    IN  [i \in 1..Len(ids) |-> MemberRow(ids[i], tier[ids[i]])]

BaseNames == [m \in {"M1", "M2"} |-> IF m = "M1" THEN "Alice" ELSE "Bob"]

BaseCatalog == <<CourseRow("C1", "standard"), CourseRow("C2", "standard")>>

BaseTiers == [m \in MemberIds |-> IF m = "M2" THEN "premium" ELSE "standard"]

BasePlays ==
    [m \in MemberIds |->
        [c \in CourseIds |->
            IF m = "M1" THEN 0
            ELSE IF m = "M2" THEN (IF c = "C1" THEN 2 ELSE 0)
            ELSE 1]]

ColumnOrders == {<<"C1", "C2">>, <<"C2", "C1">>}

CourseOrders == ColumnOrders \cup {<<>>, <<"C1">>, <<"C2">>}

Catalogs ==
    { [i \in 1..Len(o) |-> CourseRow(o[i], t[o[i]])] :
        o \in CourseOrders, t \in [CourseIds -> Tiers] }

ScoringStore(plays, s12, s13) ==
    [member_course_matrix |-> Matrix(MemberIds, <<"C1", "C2">>, plays),
     member_similarity_df |-> SimMatrix(MemberIds, s12, s13, 1),
     members_df |-> MembersTable(MemberIds, [m \in MemberIds |-> "premium"]),
     courses_df |-> BaseCatalog,
     member_names |-> BaseNames]

GatingStore(columns, plays, tier, catalog) ==
    [member_course_matrix |-> Matrix(MemberIds, columns, plays),
     member_similarity_df |-> SimMatrix(MemberIds, 13, 1, -2),
     members_df |-> MembersTable(MemberIds, tier),
     courses_df |-> catalog,
     member_names |-> BaseNames]

PartialStore(rows, simrows, present, catalog) ==
    [member_course_matrix |-> Matrix(rows, <<"C1", "C2">>, BasePlays),
     member_similarity_df |-> SimMatrix(simrows, 13, 1, -2),
     members_df |-> MembersTable(present, BaseTiers),
     courses_df |-> catalog,
     member_names |-> BaseNames]

(***************************************************************************)
(* The process: the startup event and the three HTTP handlers.  A handler  *)
(* runs to completion and its answer is then sent (respond).  Handlers can *)
(* be called before the startup event has run (e.g. a test client that     *)
(* does not run the lifespan events).                                      *)
(***************************************************************************)
DefaultLimit == 5

Limits == ((0 - MaxNegLimit)..MaxLimit) \cup {DefaultLimit}

Init ==
    /\ model_data = None
    /\ started = FALSE
    /\ request = None
    /\ response = None

\* lines 21-29: pickle.load(f) on success; a missing file leaves
\* model_data as it is
load_model ==
    /\ ~started
    /\ request = None
    /\ started' = TRUE
    /\ \/ \E plays \in [MemberIds -> [CourseIds -> 0..MaxPlays]],
             s12 \in SimValues, s13 \in SimValues :
             model_data' = ScoringStore(plays, s12, s13)
       \/ \E columns \in ColumnOrders,
             plays \in [MemberIds -> [CourseIds -> {0, 1}]],
             tier \in [MemberIds -> Tiers],
             catalog \in Catalogs :
             model_data' = GatingStore(columns, plays, tier, catalog)
       \/ \E rows \in SUBSET MemberIds,
             simrows \in SUBSET MemberIds,
             present \in SUBSET MemberIds,
             catalog \in Catalogs :
             model_data' = PartialStore(rows, simrows, present, catalog)
       \/ model_data' = model_data      \* FileNotFoundError
    /\ UNCHANGED <<request, response>>

\* lines 128-130
root ==
    /\ request = None
    /\ request' = [path |-> "/"]
    /\ response' = [status |-> 200,
                    body |-> [message |-> "ParPass ML API", status |-> "running",
                              model_loaded |-> model_data # None]]
    /\ UNCHANGED <<model_data, started>>

\* mutant: the health check retries the load when the store is empty
health_reloading ==
    /\ request = None
    /\ request' = [path |-> "/health"]
    /\ response' = [status |-> 200,
                    body |-> [status |-> "healthy",
                              model_loaded |-> model_data # None]]
    /\ model_data' = IF model_data = None
                     THEN ScoringStore(BasePlays, 13, 1)
                     ELSE model_data
    /\ UNCHANGED started

\* lines 140-142
health ==
    /\ request = None
    /\ request' = [path |-> "/health"]
    /\ response' = [status |-> 200,
                    body |-> [status |-> "healthy",
                              model_loaded |-> model_data # None]]
    /\ UNCHANGED <<model_data, started>>

\* lines 132-138; an exception escaping the handler is answered with 500
recommendations_response(md, member_id, limit) ==
    IF md = None
    THEN [status |-> 503, detail |-> "Model not loaded"]
    ELSE LET results == get_recommendations(md, member_id, limit)
         IN  IF results.raised # ""
             THEN [status |-> 500, detail |-> results.raised]
             ELSE [status |-> 200,
                   body |-> [member_id |-> member_id,
                             recommendations |-> results.value]]

recommendations ==
    /\ request = None
    /\ \E member_id \in MemberIds, limit \in Limits :
          /\ request' = [path |-> "/recommendations",
                         member_id |-> member_id, limit |-> limit]
          /\ response' = recommendations_response(model_data, member_id, limit)
    /\ UNCHANGED <<model_data, started>>

\* the answer leaves the process; the handler keeps nothing
respond ==
    /\ request # None
    /\ request' = None
    /\ response' = None
    /\ UNCHANGED <<model_data, started>>

Next == load_model \/ root \/ health \/ recommendations \/ respond

Spec == Init /\ [][Next]_vars

(***************************************************************************)
(* Vocabulary of the properties.  None of it is used by the actions: the   *)
(* expected values are computed here from the store, independently of      *)
(* get_recommendations.                                                    *)
(***************************************************************************)
IsRecommendation == request # None /\ request.path = "/recommendations"

Loaded == model_data # None

\* the request was answered with {member_id, recommendations}
Answered == IsRecommendation /\ response.status = 200

Recs == response.body.recommendations

HasRow(m) == m \in model_data.member_course_matrix.index

InMemberTable(m) ==
    \E i \in DOMAIN model_data.members_df : model_data.members_df[i].member_id = m

TierOf(m) ==
    (CHOOSE r \in Range(model_data.members_df) : r.member_id = m).tier

Columns == Range(model_data.member_course_matrix.columns)

PlayCount(m, c) == model_data.member_course_matrix.values[m][c]

HasMetadata(c) ==
    \E i \in DOMAIN model_data.courses_df : model_data.courses_df[i].course_id = c

CatalogTier(c) ==
    (CHOOSE r \in Range(model_data.courses_df) : r.course_id = c).tier_required

\* similarity(member, other), read from the row of the member
Similarity(m, o) == model_data.member_similarity_df.values[m][o]

Others(m) == Range(model_data.member_similarity_df.index) \ {m}

RECURSIVE WeightedSum(_, _, _)
WeightedSum(S, m, c) ==
    IF S = {} THEN 0
    ELSE LET o == CHOOSE x \in S : TRUE
         IN  Similarity(m, o) * PlayCount(o, c) + WeightedSum(S \ {o}, m, c)

\* the unrounded score of course c for member m, in sixteenths
ExpectedScore(m, c) == WeightedSum(Others(m), m, c)

\* r hundredths is x sixteenths rounded to 2 decimal places: r/100 - x/16 is
\* d/400, so r is the nearest hundredth when d is -1, 0 or 1 and one of the
\* two nearest when d is -2 or 2, where rounding takes the even one
IsRounded2(r, x) ==
    LET d == 4 * r - 25 * x
    IN  d \in -1..1 \/ (d \in {-2, 2} /\ r % 2 = 0)

\* the courses the scoring loop may recommend to m
Eligible(m) ==
    {c \in Columns :
        /\ ~(PlayCount(m, c) > 0)
        /\ HasMetadata(c)
        /\ ~(CatalogTier(c) = "premium" /\ TierOf(m) # "premium")}

ColumnPos(c) ==
    CHOOSE i \in DOMAIN model_data.member_course_matrix.columns :
        model_data.member_course_matrix.columns[i] = c

\* how many eligible courses come before c in the ranking
Rank(m, c) ==
    Cardinality({d \in Eligible(m) :
        \/ ExpectedScore(m, d) > ExpectedScore(m, c)
        \/ /\ ExpectedScore(m, d) = ExpectedScore(m, c)
           /\ ColumnPos(d) < ColumnPos(c)})

\* the fallback record of catalog row k
IsPopularRecord(rec, k) ==
    LET row == model_data.courses_df[k]
    IN  rec = [id |-> row.course_id, name |-> row.name, city |-> row.city,
               state |-> row.state, tier_required |-> row.tier_required,
               score |-> 0, reason |-> "Popular course"]

\* catalog entries in catalog order, every score 0, reason "Popular course"
IsCatalogPrefix(recs) ==
    /\ Len(recs) <= Len(model_data.courses_df)
    /\ \A i \in DOMAIN recs : IsPopularRecord(recs[i], i)

\* no play count greater than zero for any course (no row, or a row of zeros)
ZeroInteractions(m) ==
    ~HasRow(m) \/ \A c \in Columns : PlayCount(m, c) = 0

(***************************************************************************)
(* C1.  A member that has a row in the interaction matrix and whose tier   *)
(* in the member table is not "premium" is never returned a record with    *)
(* tier_required = "premium", whatever the limit.                          *)
(***************************************************************************)
C1_NoPremiumForStandard ==
    (/\ Answered
     /\ HasRow(request.member_id)
     /\ InMemberTable(request.member_id)
     /\ TierOf(request.member_id) # "premium")
    => \A i \in DOMAIN Recs : Recs[i].tier_required # "premium"

\* a standard member is answered with some course while a premium course it
\* has not played, with metadata, is left out although the limit has room
C1_Witness ==
    /\ Answered
    /\ HasRow(request.member_id)
    /\ InMemberTable(request.member_id)
    /\ TierOf(request.member_id) = "standard"
    /\ Recs # <<>>
    /\ Len(Recs) < request.limit
    /\ \E c \in Columns :
          /\ PlayCount(request.member_id, c) = 0
          /\ HasMetadata(c)
          /\ CatalogTier(c) = "premium"

(***************************************************************************)
(* C2.  No course for which the interaction matrix holds a play count      *)
(* greater than zero for the requesting member appears in the list         *)
(* returned to that member.                                                *)
(***************************************************************************)
C2_NoPlayedCourse ==
    Answered =>
        \A i \in DOMAIN Recs :
            ~(/\ HasRow(request.member_id)
              /\ Recs[i].id \in Columns
              /\ PlayCount(request.member_id, Recs[i].id) > 0)

\* the member has played a course that has metadata and passes the tier
\* gate, and is answered with another course although the limit has room
C2_Witness ==
    /\ Answered
    /\ HasRow(request.member_id)
    /\ InMemberTable(request.member_id)
    /\ Recs # <<>>
    /\ Len(Recs) < request.limit
    /\ \E c \in Columns :
          /\ PlayCount(request.member_id, c) > 0
          /\ HasMetadata(c)
          /\ CatalogTier(c) = "standard"

(***************************************************************************)
(* C3.  For a member with a row in the interaction matrix and in the       *)
(* member table, the score of every returned record is the sum over the    *)
(* other members of similarity(member, other) * play_count(other, course), *)
(* rounded to 2 decimal places.                                            *)
(***************************************************************************)
C3_ScoreIsRoundedWeightedSum ==
    (/\ Answered
     /\ HasRow(request.member_id)
     /\ InMemberTable(request.member_id))
    => \A i \in DOMAIN Recs :
          IsRounded2(Recs[i].score, ExpectedScore(request.member_id, Recs[i].id))

\* the scenario of the specification on the grid of sixteenths: M1 (premium)
\* is 0.8125 similar to M2 and 0.0625 to M3, M2 played C1 twice and M3 once,
\* and C1 is returned with 0.8125 * 2 + 0.0625 * 1 = 1.6875, rounded to 1.69
C3_Witness ==
    /\ Answered
    /\ request.member_id = "M1"
    /\ HasRow("M1") /\ InMemberTable("M1") /\ TierOf("M1") = "premium"
    /\ Others("M1") = {"M2", "M3"}
    /\ Similarity("M1", "M2") = 13 /\ Similarity("M1", "M3") = 1
    /\ HasRow("M2") /\ HasRow("M3")
    /\ PlayCount("M2", "C1") = 2 /\ PlayCount("M3", "C1") = 1
    /\ \E i \in DOMAIN Recs : Recs[i].id = "C1" /\ Recs[i].score = 169

(***************************************************************************)
(* C4.  For every member id and every integer limit the endpoint accepts,  *)
(* the returned list holds at least 0 and at most limit records.           *)
(***************************************************************************)
C4_LengthWithinLimit ==
    Answered => (Len(Recs) >= 0 /\ Len(Recs) <= request.limit)

(***************************************************************************)
(* C5.  A member id without a row in the interaction matrix is returned    *)
(* exactly the first min(n, catalog size) courses of the course table, in  *)
(* stored order, each with score 0 and reason "Popular course".            *)
(***************************************************************************)
C5_FallbackFirstN ==
    (IsRecommendation /\ Loaded /\ ~HasRow(request.member_id))
    => /\ response.status = 200
       /\ Len(Recs) = Max(0, Min(request.limit, Len(model_data.courses_df)))
       /\ IsCatalogPrefix(Recs)

(***************************************************************************)
(* C6.  A member for whom the interaction matrix holds no play count       *)
(* greater than zero (no row, or a row of zeros) is returned the fallback  *)
(* list: up to limit catalog entries, that is the first min(limit,         *)
(* catalog size) of them, in catalog order, every score 0 and every        *)
(* reason "Popular course".                                                *)
(***************************************************************************)
C6_ZeroInteractionsGetFallback ==
    (Answered /\ ZeroInteractions(request.member_id))
    => /\ IsCatalogPrefix(Recs)
       /\ Len(Recs) = Max(0, Min(request.limit, Len(model_data.courses_df)))

(***************************************************************************)
(* C7.  While the store is not loaded every /recommendations request is    *)
(* answered 503; while it is loaded no request is answered 503 and every   *)
(* request returns {member_id, recommendations}.                           *)
(***************************************************************************)
C7_UnavailableIffNotLoaded ==
    IsRecommendation =>
        /\ ~Loaded => response.status = 503
        /\ Loaded => /\ response.status # 503
                     /\ response.status = 200
                     /\ response.body.member_id = request.member_id

(***************************************************************************)
(* C8.  On a loaded store get_recommendations raises no error: every       *)
(* request ends in a returned list.                                        *)
(***************************************************************************)
C8_NoErrorRaised ==
    (IsRecommendation /\ Loaded) => response.status = 200

(***************************************************************************)
(* C9.  Once the startup load has run, no step changes the model store or  *)
(* its loaded/not-loaded state.                                            *)
(***************************************************************************)
C9_StoreFrozenAfterLoad ==
    [][started => (started' /\ model_data' = model_data)]_vars

\* a request is being answered after a load that found no file
C9_Witness ==
    /\ started
    /\ ~Loaded
    /\ IsRecommendation
    /\ response.status = 503

====
